---- MODULE Spec2Model ----
(***************************************************************************)
(* Model of add_session_tool_simple.py: main() walks the AGENTS table and  *)
(* calls add_session_consult(agent_dir, role) for each entry.  A run reads *)
(* apps/<agent>/lib/<agent>.ex, writes <file>.backup, applies two re.sub   *)
(* substitutions and an append in memory, writes the file, runs            *)
(* `mix compile`, and either removes the backup or copies it back.         *)
(*                                                                         *)
(* File text is a sequence of tokens; every token stands for the text      *)
(* named next to it together with the whitespace in front of it ("comma"   *)
(* attaches without whitespace, "blank" is a whitespace-only line).  A     *)
(* file on disk is its text plus the line-ending convention of its bytes,  *)
(* because open(..., 'r') translates every line ending to "\n" and         *)
(* open(..., 'w') writes "\n" unchanged.                                   *)
(***************************************************************************)
EXTENDS Integers, Sequences, FiniteSets, TLC

\* ------------------------------------------------------------------ bounds
NumTargets == 3     \* entries of AGENTS in SpecBatch (the table has 8)
RunTargets == 1     \* entries of AGENTS in Spec
MaxDup == 2         \* most occurrences of one anchor in an input file
MaxRuns == 2        \* how many times Spec starts the script on the same disk

\* ------------------------------------------------------- files and tokens
\* "defmodule"      defmodule X do
\* "brace"          <ws>}
\* "comma"          ,
\* "rbracket"       ]
\* "end"            end
\* "impl"           @impl true
\* "handler_other"  def execute_tool("some_tool", args) do ... end
\* "catchall"       def execute_tool(name, _args) do ... end
\* "marker"         any text holding "session_consult" (with the quotes)
\* "tooldef"        %{ name: "session_consult", ... required: ["question"] }
\* "handler"        def execute_tool("session_consult", args) do ... end
\* "helper"         defp format_session_response(result) do ... end
\* "blank"          a trailing whitespace-only line
Absent == [eol |-> "none", text |-> <<>>]

\* open(path, 'r').read(): universal newlines, the str has "\n" only
ReadText(f) == f.text

\* open(path, 'w').write(s): "\n" is written as os.linesep, "\n" on POSIX
WriteText(s) == [eol |-> "LF", text |-> s]

\* open(path, 'w') truncated the file and the write or close then raised
Truncated == [eol |-> "LF", text |-> <<>>]

RECURSIVE Rep(_, _)
Rep(n, s) == IF n = 0 THEN <<>> ELSE s \o Rep(n - 1, s)

ListEnd == <<"brace", "rbracket", "end", "impl", "handler_other">>
NearMiss == <<"brace", "rbracket", "end", "handler_other">>

MkText(nl, nc, marker, blanks) ==
    <<"defmodule">>
    \o (IF marker THEN <<"marker">> ELSE <<>>)
    \o (IF nl = 0 THEN NearMiss ELSE Rep(nl, ListEnd))
    \o Rep(nc, <<"catchall">>)
    \o <<"end">>
    \o Rep(blanks, <<"blank">>)

MkFile(eol, text) == [eol |-> eol, text |-> text]

GoodFile == MkFile("LF", MkText(1, 1, FALSE, 0))

\* the files a target may have when the script starts
InputFiles ==
    {MkFile("LF", MkText(nl, nc, FALSE, 0)) : nl \in 0..MaxDup, nc \in 0..MaxDup}
    \cup {Absent,
          MkFile("CRLF", MkText(1, 1, FALSE, 0)),
          MkFile("LF", MkText(1, 1, FALSE, 1)),
          MkFile("LF", MkText(1, 1, TRUE, 0)),
          MkFile("LF", MkText(0, 0, TRUE, 0)),
          MkFile("LF", <<"defmodule", "brace", "rbracket", "end", "impl",
                         "catchall", "end">>)}

\* the files of the targets of a whole batch: patchable, missing, without
\* the list-end anchor, already patched, patchable with CRLF line endings
BatchFiles ==
    {GoodFile,
     Absent,
     MkFile("LF", MkText(0, 1, FALSE, 0)),
     MkFile("LF", MkText(1, 1, TRUE, 0)),
     MkFile("CRLF", MkText(1, 1, FALSE, 0))}

Count(s, tok) == Cardinality({i \in 1..Len(s) : s[i] = tok})

\* ------------------------------------------------------- pure text steps
\* a guard that knows a marker already in the input but not the inserted text
HasMarkerStale(s) == \E i \in 1..Len(s) : s[i] = "marker"

\* '"session_consult"' in content
HasMarker(s) == \E i \in 1..Len(s) : s[i] \in {"marker", "tooldef", "handler"}

\* text that starts with `def execute_tool`
IsDefExec(tok) == tok \in {"handler_other", "catchall", "handler"}

\* tool_pattern matches with group 1 at token i
ToolMatchAt(s, i) ==
    /\ i + 4 <= Len(s)
    /\ s[i] = "brace"
    /\ s[i + 1] = "rbracket"
    /\ s[i + 2] = "end"
    /\ s[i + 3] = "impl"
    /\ IsDefExec(s[i + 4])

\* re.search(tool_pattern, content)
ToolSearch(s) == \E i \in 1..Len(s) : ToolMatchAt(s, i)

TOOL_DEF_TEMPLATE == <<"brace", "comma", "tooldef", "brace">>

\* re.sub(tool_pattern, rf'\1,{TOOL_DEF_TEMPLATE}\n    \2', content):
\* every match keeps group 1, then ",", the template, and group 2
RECURSIVE SubToolFrom(_, _)
SubToolFrom(s, i) ==
    IF i > Len(s) THEN <<>>
    ELSE IF ToolMatchAt(s, i)
         THEN <<s[i], "comma">> \o TOOL_DEF_TEMPLATE \o SubToolFrom(s, i + 1)
         ELSE <<s[i]>> \o SubToolFrom(s, i + 1)

SubTool(s) == SubToolFrom(s, 1)

handler_code == <<"handler">>

\* the replacement written as rf'\1{handler_code}'
RECURSIVE SubCatchAllAfterFrom(_, _)
SubCatchAllAfterFrom(s, i) ==
    IF i > Len(s) THEN <<>>
    ELSE IF s[i] = "catchall"
         THEN <<s[i]>> \o handler_code \o SubCatchAllAfterFrom(s, i + 1)
         ELSE <<s[i]>> \o SubCatchAllAfterFrom(s, i + 1)

SubCatchAllAfter(s) == SubCatchAllAfterFrom(s, 1)

\* re.sub(catchall_pattern, rf'{handler_code}\1', content): every match
RECURSIVE SubCatchAllFrom(_, _)
SubCatchAllFrom(s, i) ==
    IF i > Len(s) THEN <<>>
    ELSE IF s[i] = "catchall"
         THEN handler_code \o <<s[i]>> \o SubCatchAllFrom(s, i + 1)
         ELSE <<s[i]>> \o SubCatchAllFrom(s, i + 1)

SubCatchAll(s) == SubCatchAllFrom(s, 1)

helper_code == <<"helper">>

\* content.rstrip()
RECURSIVE RStrip(_)
RStrip(s) ==
    IF s # <<>> /\ s[Len(s)] = "blank" THEN RStrip(SubSeq(s, 1, Len(s) - 1))
    ELSE s

\* content.rstrip() + helper_code + "\nend\n"
AppendHelper(s) == RStrip(s) \o helper_code \o <<"end">>

\* step 3 left out
PatchNoHelper(s) == SubCatchAll(SubTool(s))

\* lines 86-145: the three insertions in the order of the code
Patch(s) == AppendHelper(SubCatchAll(SubTool(s)))

\* ------------------------------------------------------------------ state
VARIABLES
    agents,         \* len(AGENTS)
    first,          \* history: files when the script was started first
    files,          \* disk: apps/<t>/lib/<t>.ex for every target
    backups,        \* disk: the same path with ".backup"
    pc,             \* position of main / add_session_consult
    idx,            \* target the for loop of main is at
    content,        \* local `content` of the running add_session_consult
    success_count,  \* local of main
    printed,        \* the "Completed: a/b" line once printed
    runs,           \* how many times the script has been started
    snap,           \* history: files when this start of the script began
    bsnap,          \* history: backups when this start of the script began
    outcome,        \* history: how each target's run ended in this start
    prev,           \* history: outcome of each target in the previous start
    wrote,          \* history: mutated content was written to the target
    vres,           \* history: what `mix compile` returned for the target
    cause           \* history: what ended main early

vars == <<agents, first, files, backups, pc, idx, content, success_count, printed, runs,
          snap, bsnap, outcome, prev, wrote, vres, cause>>

Targets == 1..agents

NoSummary == [ok |-> -1, total |-> -1]
NoResult == [rc |-> -1, generated |-> FALSE]
VerifyResults == [rc : {0, 1}, generated : BOOLEAN]

\* the script has just been started: nothing has run, no backup exists
Started ==
    /\ first = files
    /\ backups = [t \in Targets |-> Absent]
    /\ pc = "loop"
    /\ idx = 1
    /\ content = <<>>
    /\ success_count = 0
    /\ printed = NoSummary
    /\ runs = 1
    /\ snap = files
    /\ bsnap = backups
    /\ outcome = [t \in Targets |-> "none"]
    /\ prev = [t \in Targets |-> "none"]
    /\ wrote = [t \in Targets |-> FALSE]
    /\ vres = [t \in Targets |-> NoResult]
    /\ cause = "none"

Init ==
    /\ agents = RunTargets
    /\ files \in [Targets -> InputFiles]
    /\ Started

InitBatch ==
    /\ agents = NumTargets
    /\ files \in [Targets -> BatchFiles]
    /\ Started

\* ---------------------------------------------------------------- helpers
RunPcs == {"exists", "read", "backup", "patch", "write", "verify", "finish"}

\* add_session_consult returns val; main adds to success_count on True and
\* goes back to the head of its for loop (lines 181-183)
Return(val, out) ==
    /\ success_count' = IF val THEN success_count + 1 ELSE success_count
    /\ outcome' = [outcome EXCEPT ![idx] = out]
    /\ idx' = idx + 1
    /\ content' = <<>>
    /\ pc' = "loop"
    /\ UNCHANGED cause

\* an exception leaves add_session_consult; neither it nor main has a
\* try/except, so the exception ends main as well
Raise(why) ==
    /\ pc' = "crashed"
    /\ cause' = why
    /\ outcome' = [outcome EXCEPT ![idx] = "raised"]
    /\ content' = <<>>
    /\ UNCHANGED <<idx, success_count>>

\* `result.returncode == 0 and 'Generated' in result.stdout`
VerifyOk(r) == r.rc = 0 /\ r.generated

\* ---------------------------------------------------------------- actions
\* main, lines 179-180: the head of the for loop over AGENTS
MainLoop ==
    /\ pc = "loop"
    /\ pc' = IF idx <= agents THEN "exists" ELSE "summary"
    /\ UNCHANGED <<agents, first, files, backups, idx, content, success_count, printed, runs,
                   snap, bsnap, outcome, prev, wrote, vres, cause>>

\* a missing file reported as done
CheckExistsCounted ==
    /\ pc = "exists"
    /\ IF files[idx] = Absent
       THEN Return(TRUE, "missing")
       ELSE /\ pc' = "read"
            /\ UNCHANGED <<idx, content, success_count, outcome, cause>>
    /\ UNCHANGED <<agents, first, files, backups, printed, runs, snap, bsnap, prev, wrote, vres>>

\* lines 62-64
CheckExists ==
    /\ pc = "exists"
    /\ IF files[idx] = Absent
       THEN Return(FALSE, "missing")
       ELSE /\ pc' = "read"
            /\ UNCHANGED <<idx, content, success_count, outcome, cause>>
    /\ UNCHANGED <<agents, first, files, backups, printed, runs, snap, bsnap, prev, wrote, vres>>

\* the backup taken before the marker is looked for
ReadGuardBackupFirst ==
    /\ pc = "read"
    /\ LET c == ReadText(files[idx]) IN
       /\ backups' = [backups EXCEPT ![idx] = WriteText(c)]
       /\ IF HasMarker(c)
          THEN Return(TRUE, "skipped")
          ELSE /\ content' = c
               /\ pc' = "patch"
               /\ UNCHANGED <<idx, success_count, outcome, cause>>
    /\ UNCHANGED <<agents, first, files, printed, runs, snap, bsnap, prev, wrote, vres>>

\* lines 66-72
ReadGuard ==
    /\ pc = "read"
    /\ LET c == ReadText(files[idx]) IN
       IF HasMarker(c)
       THEN Return(TRUE, "skipped")
       ELSE /\ content' = c
            /\ pc' = "backup"
            /\ UNCHANGED <<idx, success_count, outcome, cause>>
    /\ UNCHANGED <<agents, first, files, backups, printed, runs, snap, bsnap, prev, wrote, vres>>

\* lines 74-76
WriteBackup ==
    /\ pc = "backup"
    /\ backups' = [backups EXCEPT ![idx] = WriteText(content)]
    /\ pc' = "patch"
    /\ UNCHANGED <<agents, first, files, idx, content, success_count, printed, runs,
                   snap, bsnap, outcome, prev, wrote, vres, cause>>

\* lines 78-145
ApplyPatch ==
    /\ pc = "patch"
    /\ IF ~ToolSearch(content)
       THEN Return(FALSE, "anchor_failed")
       ELSE /\ content' = Patch(content)
            /\ pc' = "write"
            /\ UNCHANGED <<idx, success_count, outcome, cause>>
    /\ UNCHANGED <<agents, first, files, backups, printed, runs, snap, bsnap, prev, wrote, vres>>

\* lines 147-149
WriteTarget ==
    /\ pc = "write"
    /\ files' = [files EXCEPT ![idx] = WriteText(content)]
    /\ wrote' = [wrote EXCEPT ![idx] = TRUE]
    /\ pc' = "verify"
    /\ UNCHANGED <<agents, first, backups, idx, content, success_count, printed, runs,
                   snap, bsnap, outcome, prev, vres, cause>>

\* lines 75-76 and 148-149 raising OSError: open() raised and the file is
\* as it was, or open() truncated it and write()/close() raised
WriteError ==
    /\ pc \in {"backup", "write"}
    /\ \E f \in {Truncated} \cup {IF pc = "backup" THEN backups[idx] ELSE files[idx]} :
          IF pc = "backup"
          THEN backups' = [backups EXCEPT ![idx] = f] /\ UNCHANGED files
          ELSE files' = [files EXCEPT ![idx] = f] /\ UNCHANGED backups
    /\ Raise("write_error")
    /\ UNCHANGED <<agents, first, printed, runs, snap, bsnap, prev, wrote, vres>>

\* lines 152-157: `mix compile` ran; its exit code and stdout are its own
Verify ==
    /\ pc = "verify"
    /\ \E r \in VerifyResults : vres' = [vres EXCEPT ![idx] = r]
    /\ pc' = "finish"
    /\ UNCHANGED <<agents, first, files, backups, idx, content, success_count, printed, runs,
                   snap, bsnap, outcome, prev, wrote, cause>>

\* lines 152-157: subprocess.run raises (no `mix` on PATH, OSError)
VerifierException ==
    /\ pc = "verify"
    /\ Raise("verifier_exception")
    /\ UNCHANGED <<agents, first, files, backups, printed, runs, snap, bsnap, prev, wrote, vres>>

\* lines 159-170
Finish ==
    /\ pc = "finish"
    /\ IF VerifyOk(vres[idx])
       THEN /\ backups' = [backups EXCEPT ![idx] = Absent]
            /\ UNCHANGED files
            /\ Return(TRUE, "success")
       ELSE /\ files' = [files EXCEPT ![idx] = WriteText(ReadText(backups[idx]))]
            /\ UNCHANGED backups
            /\ Return(FALSE, "verify_failed")
    /\ UNCHANGED <<agents, first, printed, runs, snap, bsnap, prev, wrote, vres>>

\* the restore wrapped in a try/except that reports the target as failed
RestoreErrorCaught ==
    /\ pc = "finish"
    /\ ~VerifyOk(vres[idx])
    /\ \E f \in {files[idx], Truncated} : files' = [files EXCEPT ![idx] = f]
    /\ cause' = "restore_error"
    /\ outcome' = [outcome EXCEPT ![idx] = "verify_failed"]
    /\ idx' = idx + 1
    /\ content' = <<>>
    /\ pc' = "loop"
    /\ UNCHANGED <<agents, first, backups, success_count, printed, runs, snap, bsnap,
                   prev, wrote, vres>>

\* lines 167-169 raising OSError: as WriteError, on the restore
RestoreError ==
    /\ pc = "finish"
    /\ ~VerifyOk(vres[idx])
    /\ \E f \in {files[idx], Truncated} : files' = [files EXCEPT ![idx] = f]
    /\ Raise("restore_error")
    /\ UNCHANGED <<agents, first, backups, printed, runs, snap, bsnap, prev, wrote, vres>>

\* KeyboardInterrupt between two statements of add_session_consult
Interrupt ==
    /\ pc \in RunPcs
    /\ Raise("interrupt")
    /\ UNCHANGED <<agents, first, files, backups, printed, runs, snap, bsnap, prev, wrote, vres>>

\* main, lines 185-187
Summary ==
    /\ pc = "summary"
    /\ printed' = [ok |-> success_count, total |-> agents]
    /\ pc' = "done"
    /\ UNCHANGED <<agents, first, files, backups, idx, content, success_count, runs,
                   snap, bsnap, outcome, prev, wrote, vres, cause>>

\* lines 189-190 and 178: the script is started again on the disk the
\* previous start left behind
Rerun ==
    /\ pc \in {"done", "crashed"}
    /\ runs < MaxRuns
    /\ runs' = runs + 1
    /\ pc' = "loop"
    /\ idx' = 1
    /\ content' = <<>>
    /\ success_count' = 0
    /\ printed' = NoSummary
    /\ snap' = files
    /\ bsnap' = backups
    /\ prev' = outcome
    /\ outcome' = [t \in Targets |-> "none"]
    /\ wrote' = [t \in Targets |-> FALSE]
    /\ vres' = [t \in Targets |-> NoResult]
    /\ cause' = "none"
    /\ UNCHANGED <<agents, first, files, backups>>

\* one start of the script
Step ==
    \/ MainLoop
    \/ CheckExists
    \/ ReadGuard
    \/ WriteBackup
    \/ ApplyPatch
    \/ WriteTarget
    \/ WriteError
    \/ Verify
    \/ VerifierException
    \/ Finish
    \/ RestoreError
    \/ Interrupt
    \/ Summary

Next ==
    \/ Step
    \/ Rerun

\* the script started again and again on a table of RunTargets entries
Spec == Init /\ [][Next]_vars

\* one start of the script on a table of NumTargets entries
SpecBatch == InitBatch /\ [][Step]_vars

TypeOK ==
    /\ pc \in RunPcs \cup {"loop", "summary", "done", "crashed"}
    /\ idx \in 1..(agents + 1)
    /\ success_count \in 0..agents
    /\ runs \in 1..MaxRuns

\* ----------------------------------------------------------------- claims
Returned(t) ==
    outcome[t] \in {"missing", "skipped", "anchor_failed", "success", "verify_failed"}

ToolCount(s) == Cardinality({i \in 1..Len(s) : ToolMatchAt(s, i)})

\* the target's file existed without the marker when this start began
Patchable(t) == snap[t] # Absent /\ ~HasMarker(ReadText(snap[t]))

\* C1: a run that wrote the target file and did not end in verified success
\* (the verifier reported failure, or an exception or interruption ended the
\* run) leaves the target file exactly as it was before the run.
C1_Atomicity ==
    \A t \in Targets :
        (wrote[t] /\ outcome[t] \in {"verify_failed", "raised"})
            => files[t] = snap[t]

\* C2: once a run has returned, whatever its outcome, there is no backup
\* file for its target.
C2_NoBackupAfterRun ==
    \A t \in Targets : Returned(t) => backups[t] = Absent

\* C3 as stated: for every initial file, a second run on the same target is
\* reported as skipped, writes nothing and leaves the content of the first.
C3_IdempotentAnyFile ==
    \A t \in Targets :
        (/\ snap[t] # Absent
         /\ Returned(t)
         /\ prev[t] \in {"skipped", "anchor_failed", "success", "verify_failed"})
            => /\ outcome[t] = "skipped"
               /\ ~wrote[t]
               /\ files[t] = snap[t]

\* C3 amended: when the first run returned True (success or skipped), a
\* second run on the same target is reported as skipped, writes neither the
\* file nor a backup, and leaves the content the first run left.
C3_IdempotentAfterTrue ==
    \A t \in Targets :
        (Returned(t) /\ prev[t] \in {"success", "skipped"})
            => /\ outcome[t] = "skipped"
               /\ ~wrote[t]
               /\ files[t] = snap[t]
               /\ backups[t] = bsnap[t]

C3_Witness ==
    \E t \in Targets :
        prev[t] = "success" /\ outcome[t] = "skipped" /\ files[t] # Absent

\* C4: when the file holds the marker at the start of the run, the run ends
\* as skipped without going past the guard, the file and the backup stay as
\* they were, and the verifier is not invoked.
C4_SkipUnchanged ==
    \A t \in Targets :
        (snap[t] # Absent /\ HasMarker(ReadText(snap[t])))
            => /\ files[t] = snap[t]
               /\ backups[t] = bsnap[t]
               /\ vres[t] = NoResult
               /\ ~wrote[t]
               /\ (Returned(t) => outcome[t] = "skipped")
               /\ (idx = t => pc \notin {"backup", "patch", "write", "verify", "finish"})

C4_Witness ==
    \E t \in Targets :
        /\ HasMarker(ReadText(snap[t]))
        /\ outcome[t] = "skipped"
        /\ runs = 1

\* C5: a run that reached verification and returned is a success exactly
\* when the exit code is 0 and stdout holds 'Generated'; otherwise it is
\* reported as failed and the file is the original file again.
C5_VerifierPolicy ==
    \A t \in Targets :
        (Returned(t) /\ vres[t] # NoResult)
            => /\ (outcome[t] = "success") <=> VerifyOk(vres[t])
               /\ ~VerifyOk(vres[t])
                    => (outcome[t] = "verify_failed" /\ files[t] = snap[t])

\* C6: a file without the marker that lacks the list-end anchor or the
\* catch-all anchor is never written, and its run is reported as failed.
C6_MissingAnchorNoWrite ==
    \A t \in Targets :
        (Patchable(t)
         /\ (~ToolSearch(ReadText(snap[t]))
             \/ Count(ReadText(snap[t]), "catchall") = 0))
            => /\ ~wrote[t]
               /\ files[t] = snap[t]
               /\ (Returned(t) => outcome[t] = "anchor_failed")

\* C7: a file in which the list-end pattern or the catch-all pattern occurs
\* more than once is never written, and its run is reported as failed.
C7_AmbiguousAnchorNoWrite ==
    \A t \in Targets :
        (Patchable(t)
         /\ (ToolCount(ReadText(snap[t])) > 1
             \/ Count(ReadText(snap[t]), "catchall") > 1))
            => /\ ~wrote[t]
               /\ (Returned(t) => outcome[t] = "anchor_failed")

\* C8: a file with each anchor exactly once and no marker, whose verifier
\* reports success, ends as success with exactly one tool definition, one
\* dispatch handler and one helper in the file, and without a backup.
C8_ScenarioA ==
    \A t \in Targets :
        (/\ Patchable(t)
         /\ ToolCount(ReadText(snap[t])) = 1
         /\ Count(ReadText(snap[t]), "catchall") = 1
         /\ VerifyOk(vres[t])
         /\ Returned(t))
            => /\ outcome[t] = "success"
               /\ Count(ReadText(files[t]), "tooldef") = 1
               /\ Count(ReadText(files[t]), "handler") = 1
               /\ Count(ReadText(files[t]), "helper") = 1
               /\ backups[t] = Absent

C8_Witness ==
    \E t \in Targets :
        /\ Patchable(t)
        /\ ToolCount(ReadText(snap[t])) = 1
        /\ Count(ReadText(snap[t]), "catchall") = 1
        /\ VerifyOk(vres[t])
        /\ outcome[t] = "success"

\* the dispatch fragments and the catch-all handlers of s come in pairs,
\* the fragment right in front of the catch-all
DispatchFirst(s) ==
    /\ \A j \in 1..Len(s) : s[j] = "catchall" => (j > 1 /\ s[j - 1] = "handler")
    /\ \A i \in 1..Len(s) : s[i] = "handler" => (i < Len(s) /\ s[i + 1] = "catchall")

\* C9: in every content written to the target file, the inserted dispatch
\* fragment stands strictly before the catch-all handler.
C9_Ordering ==
    pc \in {"verify", "finish"}
        => /\ ReadText(files[idx]) = content
           /\ DispatchFirst(content)

C9_Witness ==
    /\ pc = "verify"
    /\ wrote[idx]
    /\ Count(ReadText(files[idx]), "catchall") = 1
    /\ Count(ReadText(files[idx]), "handler") = 1

\* C10: apart from a failing restore (and the user interrupting the
\* script), no failure of a target ends main early, and the summary is only
\* printed after every target has had its run.
C10_NeverAborts ==
    /\ pc = "crashed" => cause \in {"restore_error", "interrupt"}
    /\ printed # NoSummary => \A t \in Targets : Returned(t)

\* C11: the summary line reports <success_count>/<total_count>, where
\* success_count is the number of targets that ended in status success
\* (skipped and failed targets are not successes) and total_count is the
\* number of targets.
C11_SummaryCount ==
    printed # NoSummary
        => /\ printed.ok = Cardinality({t \in Targets : outcome[t] = "success"})
           /\ printed.total = agents

\* C12: when a backup file exists for the target at the start of a run that
\* gets to the backup step, the run is reported as failed and neither the
\* target file nor that backup is modified.
C12_BackupConflict ==
    \A t \in Targets :
        (Patchable(t) /\ bsnap[t] # Absent)
            => /\ files[t] = snap[t]
               /\ backups[t] = bsnap[t]
               /\ outcome[t] \notin {"success", "skipped"}

\* C13: a run that fails because the list-end anchor is not found has
\* created no backup file and has left the target file untouched, the
\* backup being taken only after the anchors are located.
C13_BackupAfterAnchors ==
    \A t \in Targets :
        /\ outcome[t] = "anchor_failed"
            => (backups[t] = bsnap[t] /\ files[t] = snap[t])
        /\ (idx = t /\ pc = "patch") => backups[t] = bsnap[t]

\* C14: in the content written to the target file the helper fragment stands
\* immediately before the final closing `end` of the original module, and
\* the content has no closing token beyond those of the original content
\* (the closing tokens inside the fragments are part of the fragment tokens).
C14_ModuleEndInsertion ==
    (pc \in {"verify", "finish"} /\ wrote[idx])
        => /\ Len(content) >= 2
           /\ content[Len(content)] = "end"
           /\ content[Len(content) - 1] = "helper"
           /\ Count(content, "end") = Count(ReadText(snap[idx]), "end")

\* C15: from the write of mutated content to the target file until
\* verification has succeeded, the backup file exists and is equal to the
\* target file as it was at the start of the run.
C15_OriginalRecoverable ==
    \A t \in Targets :
        (wrote[t] /\ outcome[t] # "success")
            => (backups[t] # Absent /\ backups[t] = snap[t])

\* C16: for a file that had no marker when the script was first started,
\* whenever the file holds the marker after a run has returned, it holds the
\* tool definition, the dispatch handler and the helper.
C16_MarkerProvesPatch ==
    \A t \in Targets :
        (/\ first[t] # Absent
         /\ ~HasMarker(ReadText(first[t]))
         /\ Returned(t)
         /\ HasMarker(ReadText(files[t])))
            => /\ Count(ReadText(files[t]), "tooldef") >= 1
               /\ Count(ReadText(files[t]), "handler") >= 1
               /\ Count(ReadText(files[t]), "helper") >= 1

\* the target holds content that is not its original, is not verified, and
\* its backup is on disk
InFlight(t) ==
    files[t] # snap[t] /\ outcome[t] # "success" /\ backups[t] # Absent

\* C17: in every state of a batch, also after an interruption, at most one
\* target is in flight, and the file of every target that is finished or
\* not yet started is its original file or the verified patched content.
C17_OneInFlight ==
    /\ Cardinality({t \in Targets : InFlight(t)}) <= 1
    /\ \A t \in Targets :
        (Returned(t) \/ t > idx)
            => \/ files[t] = snap[t]
               \/ /\ outcome[t] = "success"
                  /\ files[t] = WriteText(Patch(ReadText(snap[t])))

\* C18: when the restore after a failed verification raises, the run does
\* not end as an ordinary failed result: main has ended with the exception,
\* no later target is touched and no summary is printed.
C18_RestoreFailureHalts ==
    cause = "restore_error"
        => /\ pc = "crashed"
           /\ outcome[idx] = "raised"
           /\ printed = NoSummary
           /\ \A t \in Targets :
                t > idx => /\ outcome[t] = "none"
                           /\ files[t] = snap[t]
                           /\ backups[t] = bsnap[t]

C18_Witness ==
    /\ cause = "restore_error"
    /\ idx < agents
    /\ ~VerifyOk(vres[idx])
    /\ snap[idx + 1] # Absent

\* C19: a target whose file does not exist is reported as failed without
\* the run going past the existence test: no file or backup is created,
\* the verifier is not invoked, the target is not counted in success_count,
\* and main goes on to the next target.
C19_MissingFile ==
    /\ \A t \in Targets :
        snap[t] = Absent
            => /\ files[t] = Absent
               /\ backups[t] = Absent
               /\ vres[t] = NoResult
               /\ ~wrote[t]
               /\ (idx = t => pc \in {"loop", "exists", "crashed"})
               /\ (Returned(t) => (outcome[t] = "missing" /\ idx > t))
    /\ success_count = Cardinality({t \in Targets : outcome[t] \in {"success", "skipped"}})

C19_Witness ==
    \E t \in Targets :
        /\ t < agents
        /\ snap[t] = Absent
        /\ outcome[t] = "missing"
        /\ outcome[t + 1] = "success"
====
